---------------------------- MODULE Spec2Model ----------------------------
(***************************************************************************)
(* Model of the lazy time-step / snapshot access layer of StagPy           *)
(* (src/stagpy/stagyydata.py): the isnap -> istep index (_Indexes), the    *)
(* step and snapshot registries (_Steps, _Snaps), the per-step field cache *)
(* (_Fields), the forward snapshot search (_Step.isnap) and the facade     *)
(* (StagyyData).                                                           *)
(*                                                                         *)
(* Python values are tagged records: PyInt(n), PyFloat, PyStr, None and    *)
(* the module's private sentinel UNDETERMINED.  Every handler is an        *)
(* operator from the dataset state d (a record of the mutable fields) to a *)
(* result [d, v, exc]: the state it leaves, the value it returns and the   *)
(* exception it raises ("none" when it returns).  A handler that calls     *)
(* another hands the result to the operator modelling the rest of its      *)
(* body.  An action applies one public operation to the current state and  *)
(* stores the state the whole handler leaves.                              *)
(***************************************************************************)
EXTENDS Integers, Sequences, FiniteSets, TLC

\* ------------------------------------------------------------------ bounds

\* Step numbers a caller asks steps[...] for lie in -1..MaxStep.
MaxStep == 1
\* Objects the heap may hold (every _Step ever constructed and kept).
MaxObjs == 4
\* Cells a header may count along an axis, and blocks of the grid.
MaxCells == 2

\* ------------------------------------------------------- program constants

\* _Indexes._nlst, the number of buckets.  The source sets 400; the model
\* scales it to 2 buckets.
nlst == 2
\* The literal 100000 of _Indexes._isnap_idx (bucket width 100000 // _nlst).
\* The model scales it to 4: a bucket holds at most 2 entries (the source:
\* 250) and the snapshot numbers the index accepts are 0..3 (the source:
\* 0..99999).
IndexSpan == 4
\* The literal 99999 of the forward search of _Step.isnap (the last snapshot
\* number it probes), scaled with IndexSpan.
LastProbe == 3
\* np.pi in _Geometry.__init__: the model counts the aspect of the domain in
\* quarters of pi, so that an aspect of exactly np.pi is a value.
pi == 4

\* ------------------------------------------------------------ Python values

\* UNDETERMINED = object(): "not yet determined", distinct from None.
UNDETERMINED == [tag |-> "UNDETERMINED"]
None == [tag |-> "None"]
PyInt(n) == [tag |-> "int", v |-> n]
\* A float with the value twice / 2 (so 1.5 is PyFloat(3)).
PyFloat(twice) == [tag |-> "float", twice |-> twice]
PyStr(s) == [tag |-> "str", s |-> s]

\* Results of a handler.
Ok(d, v) == [d |-> d, v |-> v, exc |-> "none"]
Raise(d, e) == [d |-> d, v |-> None, exc |-> e]

\* A _Step of the heap, by its identity (its position in the heap).
StepRef(id) == [tag |-> "step", id |-> id]
\* A freshly constructed _EmptyStep (never stored anywhere).
EmptyStep == [tag |-> "empty"]

\* ------------------------------------------------------------------ _Indexes

\* _Indexes.__init__: _nlst empty lists of snapshot numbers and of steps.
IndexesInit == [isnap |-> [b \in 1..nlst |-> << >>],
                istep |-> [b \in 1..nlst |-> << >>]]

\* bisect.bisect_left(a, x) on a sorted list of integers, 0-based result.
RECURSIVE BisectLoop(_, _, _, _)
BisectLoop(a, x, lo, hi) ==
    IF lo < hi
    THEN IF a[((lo + hi) \div 2) + 1] < x
         THEN BisectLoop(a, x, ((lo + hi) \div 2) + 1, hi)
         ELSE BisectLoop(a, x, lo, (lo + hi) \div 2)
    ELSE lo

bisect_left(a, x) == BisectLoop(a, x, 0, Len(a))

\* list.append(x) in the place of list.insert(i, x).
ListInsertAtEnd(a, i, x) == Append(a, x)

\* list.insert(i, x) for 0 <= i <= len.
ListInsert(a, i, x) == SubSeq(a, 1, i) \o <<x>> \o SubSeq(a, i + 1, Len(a))

\* super_idx = isnap // (100000 // self._nlst)
SuperIdx(isnap) == isnap \div (IndexSpan \div nlst)

\* The 1-based position of self.isnap[super_idx]: a negative index counts
\* from the end of the list.
BucketPos(super_idx) ==
    IF super_idx >= 0 THEN super_idx + 1 ELSE nlst + super_idx + 1

\* The result of _isnap_idx in the bucket at pos, idx being the bisection.
Located(a, isnap, pos, idx) ==
    [exc |-> "none", pos |-> pos, idx |-> idx,
     present |-> (idx < Len(a) /\ a[idx + 1] = isnap)]

\* _Indexes._isnap_idx: super_idx, idx and whether isnap is present.
\* self.isnap[super_idx] raises IndexError outside -_nlst.._nlst-1.
isnap_idx(ix, isnap) ==
    IF SuperIdx(isnap) >= nlst \/ SuperIdx(isnap) < -nlst
    THEN [exc |-> "IndexError", pos |-> 0, idx |-> 0, present |-> FALSE]
    ELSE Located(ix.isnap[BucketPos(SuperIdx(isnap))], isnap,
                 BucketPos(SuperIdx(isnap)),
                 bisect_left(ix.isnap[BucketPos(SuperIdx(isnap))], isnap))

\* The body of get_istep after _isnap_idx returned r.  Result: [exc, v].
GetAt(ix, r) ==
    IF r.exc # "none" THEN [exc |-> r.exc, v |-> None]
    ELSE IF r.present THEN [exc |-> "none", v |-> ix.istep[r.pos][r.idx + 1]]
    ELSE [exc |-> "none", v |-> UNDETERMINED]

\* get_istep taking a recorded None for "not recorded".
get_istep_none_unknown(ix, isnap) ==
    IF GetAt(ix, isnap_idx(ix, isnap)).v = None
       /\ GetAt(ix, isnap_idx(ix, isnap)).exc = "none"
    THEN [exc |-> "none", v |-> UNDETERMINED]
    ELSE GetAt(ix, isnap_idx(ix, isnap))

\* _Indexes.get_istep: the recorded step, or UNDETERMINED.
get_istep(ix, isnap) == GetAt(ix, isnap_idx(ix, isnap))

\* insert recording nothing.
InsertAtDropped(ix, isnap, istep, r) == [exc |-> r.exc, ix |-> ix]

\* The body of insert after _isnap_idx returned r.  Result: [exc, ix].
InsertAt(ix, isnap, istep, r) ==
    IF r.exc # "none" THEN [exc |-> r.exc, ix |-> ix]
    ELSE IF ~r.present
    THEN [exc |-> "none",
          ix |-> [isnap |-> [ix.isnap EXCEPT ![r.pos] = ListInsert(@, r.idx, isnap)],
                  istep |-> [ix.istep EXCEPT ![r.pos] = ListInsert(@, r.idx, istep)]]]
    ELSE [exc |-> "none", ix |-> ix]

\* insert without the test of presence: the pair is inserted again, before
\* the one recorded.
insert_again(ix, isnap, istep) ==
    InsertAt(ix, isnap, istep, [isnap_idx(ix, isnap) EXCEPT !.present = FALSE])

\* _Indexes.insert: record isnap -> istep unless isnap is present.
insert(ix, isnap, istep) == InsertAt(ix, isnap, istep, isnap_idx(ix, isnap))

\* ------------------------------------------------- environment (the disk)

VARIABLES
    scan,       \* StagyyData.scan: the configured record kinds, in the order
                \* the set iterates
    snapfiles,  \* the output directory: snapshot number -> the step number
                \* its field files hold (None: no file of that number)
    written,    \* the record kinds the solver wrote a file of per snapshot
    timerows,   \* the rows of time.dat: the istep of each row
    rprofrows,  \* the profiles of rprof.dat: the istep of each profile
    par_nml     \* StagyyData.par: the [geometry] section of the namelist

VARIABLES
    steps,      \* StagyyData.steps: the dict of _Steps, istep -> _Step
    heap,       \* the _Step objects constructed so far; a _Step's identity
                \* is its position
    isteps,     \* StagyyData.snaps._isteps: the _Indexes
    tseries,    \* StagyyData._tseries
    rprof,      \* StagyyData._rprof
    gen,        \* the generator a range query returned last
    hist        \* history: the snapshot numbers resolved, the records parsed,
                \* the first step inserted per snapshot number, the snapshot
                \* numbers inserted again with another step

VARIABLES
    hdr,        \* a header dict handed to _Geometry directly
    geo         \* what _Geometry(hdr, par) gave last: the geometry, or the
                \* exception

VARIABLES
    callers,    \* concurrent callers of steps[istep]: where each stands in
                \* _Steps.__getitem__ / __missing__, its key, the _Step it
                \* constructed, and what steps[k] returned to it per key k
    guarded     \* the keys for which lookup-construct-insert is a critical
                \* section

envvars == <<scan, snapfiles, written, timerows, rprofrows, par_nml>>
geovars == <<hdr, geo>>
concvars == <<callers, guarded>>
vars == <<scan, snapfiles, written, timerows, rprofrows, par_nml,
          steps, heap, isteps, tseries, rprof, gen, hist, hdr, geo,
          callers, guarded>>

\* stagyyparsers.fields(fieldfile, only_istep=True) on the file of record
\* kind par and snapshot number isnap: the step number of its header, None
\* when there is no such file.
ParseIstep(par, isnap) ==
    IF par \in written /\ isnap \in DOMAIN snapfiles
    THEN snapfiles[isnap] ELSE None

\* ------------------------------------------------------------------- _Step

\* _Step.__init__(istep, sdat).
NewStep(istep) ==
    [istep |-> istep,
     fields |-> << >>,            \* the dict _Fields: name -> array
     header |-> UNDETERMINED,     \* _Fields._header
     geom |-> UNDETERMINED,       \* _Fields._geom
     isnap |-> UNDETERMINED,      \* _isnap
     irsnap |-> UNDETERMINED,     \* _irsnap
     itsnap |-> UNDETERMINED]     \* _itsnap

\* The setters of isnap, irsnap, itsnap on a step value (a _Step of the heap
\* or a discarded _EmptyStep): self._isnap = int(isnap).
SetIsnap(d, ref, isnap) ==
    IF ref.tag = "step"
    THEN [d EXCEPT !.heap[ref.id].isnap = PyInt(isnap)]
    ELSE d

SetItsnap(d, ref, itsnap) ==
    IF ref.tag = "step"
    THEN [d EXCEPT !.heap[ref.id].itsnap = PyInt(itsnap)]
    ELSE d

SetIrsnap(d, ref, irsnap) ==
    IF ref.tag = "step"
    THEN [d EXCEPT !.heap[ref.id].irsnap = PyInt(irsnap)]
    ELSE d

\* Reading .istep of a step value: _EmptyStep.__getattribute__ yields None.
IstepOf(d, ref) ==
    IF ref.tag = "step" THEN PyInt(d.heap[ref.id].istep) ELSE None

\* ------------------------------------------------------------------ _Steps

\* int(x) as _Steps.__missing__ uses it: truncation toward zero of a float,
\* ValueError on a non-numeric string, TypeError on any other object.
PyIntOf(x) ==
    CASE x.tag = "int" -> [exc |-> "none", n |-> x.v]
      [] x.tag = "float" ->
            [exc |-> "none",
             n |-> IF x.twice >= 0 THEN x.twice \div 2 ELSE -((-x.twice) \div 2)]
      [] x.tag = "str" -> [exc |-> "ValueError", n |-> 0]
      [] OTHER -> [exc |-> "TypeError", n |-> 0]

\* The keys of the dict a Python key hashes and compares equal to: an int,
\* or a float with an integral value.
DictKey(key) ==
    CASE key.tag = "int" -> {key.v}
      [] key.tag = "float" -> IF key.twice % 2 = 0 THEN {key.twice \div 2} ELSE {}
      [] OTHER -> {}

\* The end of __missing__ without the test of presence: a step is
\* constructed and stored on every call.
StepsCreateAlways(d, n) ==
    Ok([d EXCEPT !.heap = Append(@, NewStep(n)),
                 !.steps = (n :> (Len(d.heap) + 1)) @@ @],
       StepRef(Len(d.heap) + 1))

\* if not self.__contains__(istep): super().__setitem__(istep, _Step(...))
\* return super().__getitem__(istep)
StepsCreate(d, n) ==
    IF n \notin DOMAIN d.steps
    THEN Ok([d EXCEPT !.heap = Append(@, NewStep(n)),
                      !.steps = (n :> (Len(d.heap) + 1)) @@ @],
            StepRef(Len(d.heap) + 1))
    ELSE Ok(d, StepRef(d.steps[n]))

\* The checks of __missing__ without the one of the sign.
StepsMissingUnchecked(d, c) ==
    IF c.exc # "none" THEN Raise(d, c.exc) ELSE StepsCreate(d, c.n)

\* The body of __missing__ after int(istep) gave c.
StepsMissingChecked(d, c) ==
    IF c.exc # "none" THEN Raise(d, c.exc)
    ELSE IF c.n < 0 THEN Raise(d, "ValueError")
    ELSE StepsCreate(d, c.n)

\* __missing__ without the branch of None.
StepsMissingNoPlaceholder(d, key) == StepsMissingChecked(d, PyIntOf(key))

\* _Steps.__missing__(istep).
StepsMissing(d, key) ==
    IF key = None THEN Ok(d, EmptyStep)
    ELSE StepsMissingChecked(d, PyIntOf(key))

\* dict.__getitem__(key) of _Steps: the entry, or __missing__(key).
\* This is _Steps.__getitem__ for a key that is no slice.
StepsGetItem(d, key) ==
    IF DictKey(key) # {} /\ DictKey(key) \subseteq DOMAIN d.steps
    THEN Ok(d, StepRef(d.steps[CHOOSE k \in DictKey(key) : TRUE]))
    ELSE StepsMissing(d, key)

\* __setitem__ as dict defines it.
StepsSetItemStores(d, key, value) ==
    IF DictKey(key) # {}
    THEN [d EXCEPT !.steps = ((CHOOSE k \in DictKey(key) : TRUE) :> value.id) @@ @]
    ELSE d

\* _Steps.__setitem__(key, value): pass.
StepsSetItem(d, key, value) == d

\* ------------------------------------------------------------------ _Snaps

\* The end of bind: self.sdat.steps[istep].isnap = isnap, r being what
\* self.sdat.steps[istep] returned.
BindLink(r, isnap) ==
    IF r.exc # "none" THEN r ELSE Ok(SetIsnap(r.d, r.v, isnap), None)

\* The end of bind without the assignment of isnap.
BindNoLink(r, isnap) ==
    IF r.exc # "none" THEN r ELSE Ok(r.d, None)

\* The body of bind after self._isteps.insert returned ins.
BindInserted(d, ins, isnap, istep) ==
    IF ins.exc # "none" THEN Raise(d, ins.exc)
    ELSE BindLink(StepsGetItem([d EXCEPT !.idx = ins.ix], istep), isnap)

\* bind recording the pair in the index only.
bind_index_only(d, isnap, istep) ==
    IF insert(d.idx, isnap, istep).exc # "none"
    THEN Raise(d, insert(d.idx, isnap, istep).exc)
    ELSE BindNoLink(StepsGetItem([d EXCEPT !.idx = insert(d.idx, isnap, istep).ix],
                                 istep), isnap)

\* _Snaps.bind(isnap, istep): make the isnap <-> istep link.
bind(d, isnap, istep) ==
    BindInserted(d, insert(d.idx, isnap, istep), isnap, istep)

\* return self.sdat.steps[istep] after self.bind(isnap, istep) returned b.
ScanBound(b, found) ==
    IF b.exc # "none" THEN b ELSE StepsGetItem(b.d, found)

\* self._isteps.insert(isnap, None) returned ins; return self.sdat.steps[istep].
ScanAbsent(d, ins, istep) ==
    IF ins.exc # "none" THEN Raise(d, ins.exc)
    ELSE StepsGetItem([d EXCEPT !.idx = ins.ix], istep)

RECURSIVE ScanLoop(_, _, _, _)

\* The body of the loop over self.sdat.scan, the parser having returned found.
ScanProbe(d, isnap, i, found) ==
    IF found # None
    THEN ScanBound(bind(d, isnap, found), found)
    ELSE ScanLoop(d, isnap, i + 1, found)

\* The loop of _Snaps.__missing__ over self.sdat.scan from its i-th kind,
\* istep being the value the variable holds so far, and what follows it.
ScanLoop(d, isnap, i, istep) ==
    IF i <= Len(scan)
    THEN ScanProbe([d EXCEPT !.nprobe = @ + 1], isnap, i,
                   ParseIstep(scan[i], isnap))
    ELSE ScanAbsent(d, insert(d.idx, isnap, None), istep)

\* _Snaps.__missing__ scanning the files whatever the index holds.
SnapsLookedUpRescan(d, isnap, g) ==
    IF g.exc # "none" THEN Raise(d, g.exc)
    ELSE ScanLoop(d, isnap, 1, UNDETERMINED)

\* The body of _Snaps.__missing__ after get_istep returned g.
SnapsLookedUp(d, isnap, g) ==
    IF g.exc # "none" THEN Raise(d, g.exc)
    ELSE IF g.v = UNDETERMINED THEN ScanLoop(d, isnap, 1, UNDETERMINED)
    ELSE StepsGetItem(d, g.v)

\* History: the snapshot numbers a request has returned for.
Resolved(r, isnap) ==
    IF r.exc = "none" THEN [r EXCEPT !.d.resolved = @ \cup {isnap}] ELSE r

\* _Snaps.__missing__(isnap), which _Snaps.__getitem__ calls for every key
\* that is no slice.
SnapsMissing(d, isnap) ==
    Resolved(SnapsLookedUp(d, isnap, get_istep(d.idx, isnap)), isnap)

\* ------------------------------------------- _Step.isnap (forward search)

RECURSIVE SearchLoop(_, _, _, _)

\* The loop goes on after self.sdat.snaps.bind(isnap, istep) returned b.
SearchBound(b, id, found, isnap) ==
    IF b.exc # "none" THEN b ELSE SearchLoop(b.d, id, found, isnap)

\* istep = self.sdat.snaps[isnap].istep; self.sdat.snaps.bind(isnap, istep),
\* s being what self.sdat.snaps[isnap] returned.
SearchProbed(s, id, isnap) ==
    IF s.exc # "none" THEN s
    ELSE SearchBound(bind(s.d, isnap, IstepOf(s.d, s.v)), id,
                     IstepOf(s.d, s.v), isnap)

\* The while loop with a ceiling one number further.
SearchLoopBeyond(d, id, istep, isnap) ==
    IF (istep = None \/ istep.v < d.heap[id].istep) /\ isnap < LastProbe + 1
    THEN SearchProbed(SnapsMissing(d, isnap + 1), id, isnap + 1)
    ELSE Ok(d, istep)

\* The while loop of the isnap getter of the step id, the variables istep
\* and isnap holding the given values.
SearchLoop(d, id, istep, isnap) ==
    IF (istep = None \/ istep.v < d.heap[id].istep) /\ isnap < LastProbe
    THEN SearchProbed(SnapsMissing(d, isnap + 1), id, isnap + 1)
    ELSE Ok(d, istep)

\* return self._isnap
IsnapValue(d, id) == Ok(d, d.heap[id].isnap)

\* The getter without `if istep != self.istep: self._isnap = None`.
IsnapSearchedKept(r, id) ==
    IF r.exc # "none" THEN r ELSE IsnapValue(r.d, id)

\* if istep != self.istep: self._isnap = None, r being what the loop left.
IsnapSearched(r, id) ==
    IF r.exc # "none" THEN r
    ELSE IF r.v # PyInt(r.d.heap[id].istep)
    THEN IsnapValue([r.d EXCEPT !.heap[id].isnap = None], id)
    ELSE IsnapValue(r.d, id)

\* The getter of _Step.isnap.
StepIsnap(d, id) ==
    IF d.heap[id].isnap = UNDETERMINED
    THEN IsnapSearched(SearchLoop(d, id, None, -1), id)
    ELSE IsnapValue(d, id)

\* --------------------------------------------------------------- _Geometry

\* A key the dict does not hold.
Missing == [tag |-> "missing"]

\* str.lower() on the shapes of the namelist.
Lower(shape) ==
    CASE shape = "Cylindrical" -> "cylindrical"
      [] shape = "Spherical" -> "spherical"
      [] OTHER -> shape

\* The 1-D coordinates e1_coord, e2_coord, e3_coord of a header counting
\* nts cells.
CoordsOf(nts) == [i \in 1..3 |-> [k \in 1..nts[i] |-> k - 1]]

\* A header dict as the parser returns it, of the given file.
Header(file, rcmb, nts, ntb, aspect) ==
    [tag |-> "header", file |-> file, rcmb |-> rcmb, nts |-> nts,
     ntb |-> ntb, aspect |-> aspect, e_coord |-> CoordsOf(nts)]

\* 'ntot': list(header['nts']) + [header['ntb']]
Ntot(header) == header.nts \o <<header.ntb>>

\* twod_xz reading the count of the first axis.
twod_yz(ntot) == ntot[1] = 1

\* _Geometry.twod_xz: self.nytot == 1, nytot being ntot[1] by __getattr__.
twod_xz(ntot) == ntot[2] = 1

\* _Geometry.spherical, cylindrical, curvilinear and cartesian.
spherical(g) == g.sph
cylindrical(g) == g.cyl
curvilinear(g) == spherical(g) \/ cylindrical(g)
cartesian(g) == ~curvilinear(g)

\* np.meshgrid(x, y, z + shift, indexing='ij'), kept as a term.
Meshgrid(coords, shift) ==
    [op |-> "meshgrid", x |-> coords[1], y |-> coords[2], z |-> coords[3],
     shift |-> shift]

\* The end of __init__ from `self._shape['axi'] = ...`: the flag axi, the
\* coordinates and the meshes.  Result: [exc, header, geom].
GeometryBuilt(header, shape, sph, cyl) ==
    [exc |-> "none",
     header |-> header,
     geom |-> [tag |-> "geometry",
               sph |-> sph,
               cyl |-> cyl,
               axi |-> (~(sph \/ cyl) /\ twod_xz(Ntot(header))
                        /\ shape = "axisymmetric"),
               ntot |-> Ntot(header),
               coords |-> header.e_coord,
               cart_meshes |->
                   IF ~(sph \/ cyl) THEN Meshgrid(header.e_coord, None)
                   ELSE [op |-> "cartesian of",
                         of |-> Meshgrid(header.e_coord, header.rcmb)],
               curv_meshes |->
                   IF ~(sph \/ cyl) THEN <<None, None, None>>
                   ELSE Meshgrid(header.e_coord, header.rcmb)]]

\* __init__ raising e, the header left as given.
GeometryFailed(header, e) == [exc |-> e, header |-> header, geom |-> None]

\* The curvilinear branch with both flags set.
CurvilinearBoth(header, shape) ==
    GeometryBuilt(header, shape, TRUE,
                  twod_xz(Ntot(header))
                  /\ (shape = "cylindrical" \/ header.aspect[1] >= pi))

\* The branch `self.rcmb is not None and self.rcmb >= 0`:
\* cyl = twod_xz and (shape == 'cylindrical' or aspect[0] >= np.pi),
\* sph = not cyl.
Curvilinear(header, shape) ==
    GeometryBuilt(header, shape,
                  ~(twod_xz(Ntot(header))
                    /\ (shape = "cylindrical" \/ header.aspect[1] >= pi)),
                  twod_xz(Ntot(header))
                  /\ (shape = "cylindrical" \/ header.aspect[1] >= pi))

\* The namelist branch deciding as the branch of the header does.
FromNamelistAsHeader(header, shape) ==
    IF header.rcmb = None THEN GeometryFailed(header, "TypeError")
    ELSE IF header.rcmb.twice >= 0 THEN Curvilinear(header, shape)
    ELSE GeometryBuilt(header, shape, FALSE, FALSE)

\* The branch `elif self.rcmb is None` after header['rcmb'] was given the
\* r_cmb of the namelist: None >= 0 raises TypeError.
FromNamelist(header, shape) ==
    IF header.rcmb = None THEN GeometryFailed(header, "TypeError")
    ELSE IF header.rcmb.twice >= 0
    THEN IF twod_xz(Ntot(header)) /\ shape = "cylindrical"
         THEN GeometryBuilt(header, shape, FALSE, TRUE)
         ELSE IF shape = "spherical"
         THEN GeometryBuilt(header, shape, TRUE, FALSE)
         ELSE GeometryBuilt(header, shape, FALSE, FALSE)
    ELSE GeometryBuilt(header, shape, FALSE, FALSE)

\* _Geometry.__init__(header, par), p being par['geometry'].  header['nts']
\* on a header of None raises TypeError; self.rcmb is header['rcmb'] and
\* raises KeyError when the header has no such key; header['rcmb'] is
\* assigned the r_cmb of the namelist when it holds None.
\* Result: [exc, header, geom], header being the dict as __init__ leaves it.
Geometry(header, p) ==
    IF header = None THEN GeometryFailed(header, "TypeError")
    ELSE IF header.rcmb = Missing THEN GeometryFailed(header, "KeyError")
    ELSE IF header.rcmb # None /\ header.rcmb.twice >= 0
    THEN Curvilinear(header, Lower(p.shape))
    ELSE IF header.rcmb = None
    THEN IF p.r_cmb = Missing THEN GeometryFailed(header, "KeyError")
         ELSE FromNamelist([header EXCEPT !.rcmb = p.r_cmb], Lower(p.shape))
    ELSE GeometryBuilt(header, Lower(p.shape), FALSE, FALSE)

\* ----------------------------------------------------------------- _Fields

\* constants.FIELD_VAR_LIST: the record kind (.par) of each field name.
FIELD_VAR_LIST ==
    [name \in {"u", "v", "w", "p"} |-> "vp"] @@
    [name \in {"sx", "sy", "sz", "x"} |-> "sx"] @@
    [name \in {"t"} |-> "t"]

\* StagyyData.filename(fname, timestep): the number is appended only when
\* timestep is not None.
filename(fname, timestep) == [fname |-> fname, timestep |-> timestep]

\* Whether the output directory holds the file.
IsFile(file) ==
    /\ file.fname \in written
    /\ file.timestep # None
    /\ file.timestep.v \in DOMAIN snapfiles
    /\ snapfiles[file.timestep.v] # None

\* The raw arrays of a record: four for the bundled kinds, one otherwise.
NArrays(par) == IF par \in {"vp", "sx"} THEN 4 ELSE 1

\* The header of the files of the output directory: a grid of 2 x 1 x 2
\* cells in one block, of aspect pi / 2, the header holding no rcmb.
HeaderOf(file) == Header(file, None, <<2, 1, 2>>, 1, <<2, 2>>)

\* stagyyparsers.fields(fieldfile, only_header=True): the header, None
\* without the file.
ParseHeader(file) == IF IsFile(file) THEN HeaderOf(file) ELSE None

\* stagyyparsers.fields(fieldfile): (header, fields), None without the file.
ParseFields(file) ==
    IF IsFile(file)
    THEN [tag |-> "parsed",
          header |-> HeaderOf(file),
          fields |-> [k \in 1..NArrays(file.fname) |->
                         [file |-> file, k |-> k]]]
    ELSE None

\* Every record kind taken for a single field.
FldNamesSingle(par_type, name) == <<name>>

\* The names of the sub-fields of a record kind, for the field asked.
FldNames(par_type, name) ==
    IF par_type = "vp" THEN <<"u", "v", "w", "p">>
    ELSE IF par_type = "sx" THEN <<"sx", "sy", "sz", "x">>
    ELSE <<name>>

Min(a, b) == IF a <= b THEN a ELSE b

\* The last position of the name nm among the first n names.
LastOf(fld_names, n, nm) ==
    CHOOSE i \in 1..n :
        /\ fld_names[i] = nm
        /\ \A j \in 1..n : fld_names[j] = nm => j <= i

\* for fld_name, fld in zip(fld_names, fields): self[fld_name] = fld
ZipStore(cache, fld_names, flds) ==
    [nm \in {fld_names[i] : i \in 1..Min(Len(fld_names), Len(flds))}
            \cup DOMAIN cache |->
        IF nm \in {fld_names[i] : i \in 1..Min(Len(fld_names), Len(flds))}
        THEN flds[LastOf(fld_names, Min(Len(fld_names), Len(flds)), nm)]
        ELSE cache[nm]]

\* self._header = header, the loop of the zip, and return self[name]; the
\* history keeps the records parsed.
FieldsStored(d, id, par_type, name, header, cache) ==
    Ok([d EXCEPT !.heap[id].header = header,
                 !.heap[id].fields = cache,
                 !.parsed = @ \cup {<<id, par_type>>}],
       cache[name])

\* header, fields = stagyyparsers.fields(fieldfile): unpacking None raises
\* TypeError.
FieldsParsed(d, id, par_type, name, parsed) ==
    IF parsed = None THEN Raise(d, "TypeError")
    ELSE FieldsStored(d, id, par_type, name, parsed.header,
                      ZipStore(d.heap[id].fields, FldNames(par_type, name),
                               parsed.fields))

\* The body of __missing__ after self.step.isnap returned s.
FieldsNamed(s, id, par_type, name) ==
    IF s.exc # "none" THEN s
    ELSE FieldsParsed([s.d EXCEPT !.nfull = @ + 1], id, par_type, name,
                      ParseFields(filename(par_type, s.v)))

\* The test of the name made after self.step.isnap was read (s).
FieldsNameTested(s, name) ==
    IF s.exc # "none" THEN s ELSE Raise(s.d, "ValueError")

\* __missing__ testing the name after the file was located.
FieldsMissingLateTest(d, id, name) ==
    IF name \notin DOMAIN FIELD_VAR_LIST
    THEN FieldsNameTested(StepIsnap(d, id), name)
    ELSE FieldsNamed(StepIsnap(d, id), id, FIELD_VAR_LIST[name], name)

\* _Fields.__missing__(name) on the step id.
FieldsMissing(d, id, name) ==
    IF name \notin DOMAIN FIELD_VAR_LIST THEN Raise(d, "ValueError")
    ELSE FieldsNamed(StepIsnap(d, id), id, FIELD_VAR_LIST[name], name)

\* step.fields[name] on a _Step: the cached array, or __missing__.
FieldsGetItem(d, id, name) ==
    IF name \in DOMAIN d.heap[id].fields
    THEN Ok(d, d.heap[id].fields[name])
    ELSE FieldsMissing(d, id, name)

\* self._geom = _Geometry(self._header, self.step.sdat.par) gave g: the
\* header is the dict _Geometry was handed, as it left it.
GeomBuilt(d, id, g) ==
    IF g.exc # "none"
    THEN Raise([d EXCEPT !.heap[id].header = g.header], g.exc)
    ELSE Ok([d EXCEPT !.heap[id].header = g.header,
                      !.heap[id].geom = g.geom], g.geom)

\* if self._geom is UNDETERMINED: ...; return self._geom
GeomResolve(d, id) ==
    IF d.heap[id].geom = UNDETERMINED
    THEN GeomBuilt(d, id, Geometry(d.heap[id].header, par_nml))
    ELSE Ok(d, d.heap[id].geom)

RECURSIVE HeaderLoop(_, _, _)

\* The parser returned header for the i-th kind: kept, and the loop left,
\* if it is not None.
HeaderFound(d, id, i, header) ==
    IF header # None
    THEN GeomResolve([d EXCEPT !.heap[id].header = header], id)
    ELSE HeaderLoop(d, id, i + 1)

\* The body of the loop for the i-th kind, self.step.isnap having given s.
HeaderProbe(s, id, i) ==
    IF s.exc # "none" THEN s
    ELSE HeaderFound(s.d, id, i, ParseHeader(filename(scan[i], s.v)))

\* for par in self.step.sdat.scan, from the i-th kind, and what follows.
HeaderLoop(d, id, i) ==
    IF i <= Len(scan) THEN HeaderProbe(StepIsnap(d, id), id, i)
    ELSE GeomResolve(d, id)

\* _Fields.geom (and _Step.geom, which returns it) on the step id.
FieldsGeom(d, id) ==
    IF d.heap[id].header = UNDETERMINED
    THEN HeaderLoop([d EXCEPT !.heap[id].header = None], id, 1)
    ELSE GeomResolve(d, id)

\* -------------------------------------------------------------- _EmptyStep

\* _EmptyStep.__getattribute__(name): None for every attribute.
EmptyGetAttribute(attr) == None

\* The subscription value[name]: None is not subscriptable.
Subscript(d, value, name) ==
    IF value = None THEN Raise(d, "TypeError") ELSE Ok(d, value)

\* placeholder.<attr>, and with a name placeholder.<attr>[name].
EmptyAccess(d, attr, name) ==
    IF name = None THEN Ok(d, EmptyGetAttribute(attr))
    ELSE Subscript(d, EmptyGetAttribute(attr), name)

\* ------------------------------------------------------------- StagyyData

RECURSIVE TseriesLoop(_, _)

\* self.steps[istep].itsnap = itsnap, r being what self.steps[istep]
\* returned for the row i (1-based).
TseriesRow(r, i) ==
    IF r.exc # "none" THEN r
    ELSE TseriesLoop(SetItsnap(r.d, r.v, i - 1), i + 1)

\* for itsnap, timeinfo in enumerate(self._tseries), from the row i.
TseriesLoop(d, i) ==
    IF i > Len(timerows) THEN Ok(d, None)
    ELSE TseriesRow(StepsGetItem(d, PyInt(timerows[i])), i)

\* return self._tseries
TseriesValue(r) == IF r.exc # "none" THEN r ELSE Ok(r.d, r.d.tseries)

\* tseries without the test `if self._tseries is UNDETERMINED`.
TseriesReparsed(d) ==
    TseriesValue(TseriesLoop(
        [d EXCEPT !.tseries = [tag |-> "tseries", rows |-> timerows],
                  !.nseries = @ + 1], 1))

\* StagyyData.tseries.
Tseries(d) ==
    IF d.tseries = UNDETERMINED
    THEN TseriesValue(TseriesLoop(
             [d EXCEPT !.tseries = [tag |-> "tseries", rows |-> timerows],
                       !.nseries = @ + 1], 1))
    ELSE Ok(d, d.tseries)

RECURSIVE RprofLoop(_, _)

\* The loop of rprof going on without setting irsnap.
RprofRowUnregistered(r, i) ==
    IF r.exc # "none" THEN r ELSE RprofLoop(r.d, i + 1)

\* self.steps[istep].irsnap = irsnap, r being what self.steps[istep]
\* returned for the profile i (1-based).
RprofRow(r, i) ==
    IF r.exc # "none" THEN r
    ELSE RprofLoop(SetIrsnap(r.d, r.v, i - 1), i + 1)

\* for irsnap, (istep, time, prof) in enumerate(rprof_data), from i.
RprofLoop(d, i) ==
    IF i > Len(rprofrows) THEN Ok(d, None)
    ELSE RprofRow(StepsGetItem(d, PyInt(rprofrows[i])), i)

\* self._rprof = _Rprof(data, times, isteps); return self._rprof
RprofValue(r) ==
    IF r.exc # "none" THEN r
    ELSE Ok([r.d EXCEPT !.rprof = [tag |-> "rprof", isteps |-> rprofrows]],
            [tag |-> "rprof", isteps |-> rprofrows])

\* StagyyData.rprof.
Rprof(d) ==
    IF d.rprof = UNDETERMINED
    THEN RprofValue(RprofLoop([d EXCEPT !.nseries = @ + 1], 1))
    ELSE Ok(d, d.rprof)

\* ------------------------------------- _Step.itsnap, irsnap, timeinfo, rprof

\* if self._itsnap is UNDETERMINED: self._itsnap = None; return self._itsnap,
\* r being what self.sdat.tseries left.
ItsnapRead(r, id) ==
    IF r.exc # "none" THEN r
    ELSE IF r.d.heap[id].itsnap = UNDETERMINED
    THEN Ok([r.d EXCEPT !.heap[id].itsnap = None], None)
    ELSE Ok(r.d, r.d.heap[id].itsnap)

\* The getter of itsnap without its first statement, self.sdat.tseries.
StepItsnapUnparsed(d, id) == ItsnapRead(Ok(d, None), id)

\* The getter of _Step.itsnap.
StepItsnap(d, id) == ItsnapRead(Tseries(d), id)

\* if self._irsnap is UNDETERMINED: self._irsnap = None; return self._irsnap,
\* r being what self.sdat.rprof left.
IrsnapRead(r, id) ==
    IF r.exc # "none" THEN r
    ELSE IF r.d.heap[id].irsnap = UNDETERMINED
    THEN Ok([r.d EXCEPT !.heap[id].irsnap = None], None)
    ELSE Ok(r.d, r.d.heap[id].irsnap)

\* The getter of _Step.irsnap.
StepIrsnap(d, id) == IrsnapRead(Rprof(d), id)

\* The row i (0-based) of a whole-run series: its place and its step number.
SeriesRow(rows, i) == [row |-> i, istep |-> rows[i + 1]]

\* self.sdat.tseries[i], t being what self.sdat.tseries returned.
TseriesIndexed(t, i) ==
    IF t.exc # "none" THEN t
    ELSE IF i.v + 1 \in DOMAIN t.v.rows THEN Ok(t.d, SeriesRow(t.v.rows, i.v))
    ELSE Raise(t.d, "IndexError")

\* return self.sdat.tseries[self.itsnap], r being the second self.itsnap.
TimeinfoIndex(r, id) ==
    IF r.exc # "none" THEN r ELSE TseriesIndexed(Tseries(r.d), r.v)

\* if self.itsnap is None: return None, r being the first self.itsnap.
TimeinfoTest(r, id) ==
    IF r.exc # "none" THEN r
    ELSE IF r.v = None THEN Ok(r.d, None)
    ELSE TimeinfoIndex(StepItsnap(r.d, id), id)

\* _Step.timeinfo.
StepTimeinfo(d, id) == TimeinfoTest(StepItsnap(d, id), id)

\* self.sdat.rprof[i], t being what self.sdat.rprof returned: no name of
\* constants.RPROF_VAR_LIST is an integer, so that _Rprof.__getitem__ gives
\* the profile i.
RprofIndexed(t, i) ==
    IF t.exc # "none" THEN t
    ELSE IF i.v + 1 \in DOMAIN t.v.isteps
    THEN Ok(t.d, SeriesRow(t.v.isteps, i.v))
    ELSE Raise(t.d, "IndexError")

\* return self.sdat.rprof[self.irsnap], r being the second self.irsnap.
StepRprofIndex(r, id) ==
    IF r.exc # "none" THEN r ELSE RprofIndexed(Rprof(r.d), r.v)

\* if self.irsnap is None: return None, r being the first self.irsnap.
StepRprofTest(r, id) ==
    IF r.exc # "none" THEN r
    ELSE IF r.v = None THEN Ok(r.d, None)
    ELSE StepRprofIndex(StepIrsnap(r.d, id), id)

\* _Step.rprof.
StepRprof(d, id) == StepRprofTest(StepIrsnap(d, id), id)

\* ------------------------------------------------------------ range queries

RECURSIVE PyRangeInclusive(_, _, _)
\* A range that includes its stop.
PyRangeInclusive(start, stop, step) ==
    IF (step > 0 /\ start <= stop) \/ (step < 0 /\ start >= stop)
    THEN <<start>> \o PyRangeInclusive(start + step, stop, step)
    ELSE << >>

RECURSIVE PyRange(_, _, _)
\* list(range(start, stop, step)) for step # 0.
PyRange(start, stop, step) ==
    IF (step > 0 /\ start < stop) \/ (step < 0 /\ start > stop)
    THEN <<start>> \o PyRange(start + step, stop, step)
    ELSE << >>

\* x or dflt, for x an int or None.
OrElse(x, dflt) == IF x = None \/ x = PyInt(0) THEN dflt ELSE x.v

\* The slice branch with the range always started at 0.
SliceGetItemFromZero(d, kind, key) ==
    IF key.stop = None THEN Raise(d, "TypeError")
    ELSE Ok(d, [tag |-> "generator", kind |-> kind,
                rest |-> PyRange(0, key.stop.v, OrElse(key.step, 1))])

\* The slice branch of _Steps.__getitem__ and of _Snaps.__getitem__: a
\* generator over range(key.start or 0, key.stop, key.step or 1); range is
\* evaluated at once and raises TypeError on a stop of None.  rest holds
\* the keys the generator has yet to produce.
SliceGetItem(d, kind, key) ==
    IF key.stop = None THEN Raise(d, "TypeError")
    ELSE Ok(d, [tag |-> "generator", kind |-> kind,
                rest |-> PyRange(OrElse(key.start, 0), key.stop.v,
                                 OrElse(key.step, 1))])

\* The body of the generator for the key k: dict.__getitem__(k) of _Steps,
\* self.__missing__(k) of _Snaps.
GenBody(d, kind, k) ==
    IF kind = "steps" THEN StepsGetItem(d, PyInt(k)) ELSE SnapsMissing(d, k)

\* The generator after its body returned or raised r: a generator whose
\* body raised is finished.
GenAdvance(g, r) ==
    [r |-> r,
     g |-> [g EXCEPT !.rest = IF r.exc = "none" THEN Tail(@) ELSE << >>]]

\* next(g): the next element; StopIteration when the range is used up, and
\* after the body has raised.  Result: [r, g].
GenNext(d, g) ==
    IF g.rest = << >> THEN [r |-> Raise(d, "StopIteration"), g |-> g]
    ELSE GenAdvance(g, GenBody(d, g.kind, Head(g.rest)))

\* ------------------------------------------------------------ state machine

\* The output directory the model starts from: snapshots 1 and 3 written at
\* steps 1 and 2, the files of snapshots 0 and 2 missing.  Step numbers grow
\* with snapshot numbers, as the solver writes them.
Directory ==
    [n \in 0..LastProbe |-> IF n = 1 THEN PyInt(1)
                            ELSE IF n = 3 THEN PyInt(2) ELSE None]

\* The callers of the concurrent use of the registry.
CallerIds == {"a", "b"}
\* The step numbers they ask for.
CallerKeys == 0..MaxStep

\* No caller is in a call of steps[istep] and none has returned.
NoCall ==
    [c \in CallerIds |->
        [pc |-> "idle", key |-> 0, made |-> 0,
         got |-> [k \in CallerKeys |-> None]]]

\* The state after StagyyData.__init__, for a configuration and the kinds
\* of files the directory holds.
InitOf(scans, kinds) ==
    /\ scan \in scans
    /\ snapfiles = Directory
    /\ written \in kinds
    /\ timerows = <<0, 1>>
    /\ rprofrows = <<1>>
    /\ steps = << >>
    /\ heap = << >>
    /\ isteps = IndexesInit
    /\ tseries = UNDETERMINED
    /\ rprof = UNDETERMINED
    /\ gen = None
    /\ hist = [resolved |-> {}, parsed |-> {}, first |-> << >>, again |-> {}]
    /\ par_nml = [shape |-> "Cylindrical", r_cmb |-> PyFloat(1)]
    /\ hdr = None
    /\ geo = UNDETERMINED
    /\ callers = NoCall
    /\ guarded = {}

\* args.scan intersected with the record kinds of the catalog, in iteration
\* order: two kinds, the solver having written files of the second only;
\* or no kind at all.
Init == InitOf({<<"vp", "t">>, << >>}, {{"t", "sx"}})

\* The dataset as the handlers see it, the counters of parser calls at 0.
DB == [steps |-> steps, heap |-> heap, idx |-> isteps,
       tseries |-> tseries, rprof |-> rprof,
       resolved |-> hist.resolved, parsed |-> hist.parsed,
       nprobe |-> 0, nfull |-> 0, nseries |-> 0]

\* The state a handler leaves, returning or raising.
Store(d) ==
    /\ Len(d.heap) <= MaxObjs
    /\ steps' = d.steps
    /\ heap' = d.heap
    /\ isteps' = d.idx
    /\ tseries' = d.tseries
    /\ rprof' = d.rprof
    /\ hist' = [hist EXCEPT !.resolved = d.resolved, !.parsed = d.parsed]
    /\ UNCHANGED <<envvars, geovars, concvars>>

\* Keys a caller passes to steps[...]: integers, None, 1.5 and a word.
StepKeys == {PyInt(n) : n \in -1..MaxStep} \cup {None, PyFloat(3), PyStr("last")}
\* Snapshot numbers a caller passes to snaps[...]: those the index accepts,
\* the first it does not, and a large one.
SnapKeys == 0..IndexSpan \cup {10 * IndexSpan - 1}
\* The slices of the range queries: [:3:2], [1:3] and [:].
Slices ==
    {[start |-> None, stop |-> PyInt(3), step |-> PyInt(2)],
     [start |-> PyInt(1), stop |-> PyInt(3), step |-> None],
     [start |-> None, stop |-> None, step |-> None]}
\* The field names a caller asks for.
FieldNames == {"u", "p", "sy", "x", "t", "zz"}

\* dataset.steps[key]
StepsGet(key) ==
    /\ Store(StepsGetItem(DB, key).d)
    /\ UNCHANGED gen

\* dataset.steps[key] = value, value being the step constructed last
StepsSet(key, value) ==
    /\ Store(StepsSetItem(DB, key, value))
    /\ UNCHANGED gen

\* The generator the caller holds after a range query returned or raised r;
\* n counts the elements it has produced.
Held(r, key) ==
    IF r.exc = "none" THEN [g |-> r.v, key |-> key, n |-> 0] ELSE gen

\* g = dataset.steps[start:stop:step] or dataset.snaps[start:stop:step]
Slice(kind, key) ==
    /\ Store(SliceGetItem(DB, kind, key).d)
    /\ gen' = Held(SliceGetItem(DB, kind, key), key)

\* The generator g after next(g) gave n.
Advanced(g, n) ==
    [g EXCEPT !.g = n.g, !.n = IF n.r.exc = "none" THEN @ + 1 ELSE @]

\* next(g) on the generator of the last range query
NextOf(g) ==
    /\ Store(GenNext(DB, g.g).r.d)
    /\ gen' = Advanced(g, GenNext(DB, g.g))

\* dataset.snaps[isnap]
SnapsGet(isnap) ==
    /\ Store(SnapsMissing(DB, isnap).d)
    /\ UNCHANGED gen

\* step.isnap on a registered step
IsnapGet(id) ==
    /\ Store(StepIsnap(DB, id).d)
    /\ UNCHANGED gen

\* step.fields[name] on a registered step
FieldsGet(id, name) ==
    /\ Store(FieldsGetItem(DB, id, name).d)
    /\ UNCHANGED gen

\* placeholder.<attr> and placeholder.fields[name] on a placeholder
PlaceholderGet(attr, name) ==
    /\ Store(EmptyAccess(DB, attr, name).d)
    /\ UNCHANGED gen

\* step.geom on a registered step
GeomGet(id) ==
    /\ Store(FieldsGeom(DB, id).d)
    /\ UNCHANGED gen

\* dataset.tseries
TseriesGet ==
    /\ Store(Tseries(DB).d)
    /\ UNCHANGED gen

\* dataset.rprof
RprofGet ==
    /\ Store(Rprof(DB).d)
    /\ UNCHANGED gen

\* The operations on the registries, the snapshot index and the whole-run
\* series.
Next ==
    \/ \E key \in StepKeys : StepsGet(key)
    \/ \E key \in StepKeys : heap # << >> /\ StepsSet(key, StepRef(Len(heap)))
    \/ \E kind \in {"steps", "snaps"}, key \in Slices : Slice(kind, key)
    \/ gen # None /\ NextOf(gen)
    \/ \E isnap \in SnapKeys : SnapsGet(isnap)
    \/ \E id \in 1..Len(heap) : IsnapGet(id)
    \/ \E attr \in {"fields", "geom", "timeinfo", "rprof", "isnap"} :
          PlaceholderGet(attr, None)
    \/ PlaceholderGet("fields", PyStr("t"))
    \/ TseriesGet
    \/ RprofGet

Spec == Init /\ [][Next]_vars

\* ------------------------------------------- the index as a component

\* The history after insert(isnap, istep) returned or raised r: the first
\* step inserted per snapshot number, the numbers inserted again with
\* another step.
Inserted(r, isnap, istep) ==
    IF r.exc # "none" THEN hist
    ELSE IF isnap \notin DOMAIN hist.first
    THEN [hist EXCEPT !.first = (isnap :> istep) @@ @]
    ELSE IF istep # hist.first[isnap]
    THEN [hist EXCEPT !.again = @ \cup {isnap}]
    ELSE hist

\* _Indexes.insert(isnap, istep) called directly.
IndexInsert(isnap, istep) ==
    /\ isteps' = insert(isteps, isnap, istep).ix
    /\ hist' = Inserted(insert(isteps, isnap, istep), isnap, istep)
    /\ UNCHANGED <<envvars, geovars, concvars, steps, heap, tseries, rprof, gen>>

\* _Indexes.get_istep(isnap) called directly.
IndexLookup(isnap) ==
    /\ get_istep(isteps, isnap).exc \in {"none", "IndexError"}
    /\ UNCHANGED vars

NextIndex ==
    \/ \E isnap \in 0..IndexSpan, istep \in {None, PyInt(0), PyInt(1)} :
          IndexInsert(isnap, istep)
    \/ \E isnap \in 0..IndexSpan : IndexLookup(isnap)

SpecIndex == InitOf({<<"t">>}, {{"t"}}) /\ [][NextIndex]_vars

\* ------------------------------------------------ the field cache of steps

\* The operations that reach the field cache of a step.
NextFields ==
    \/ \E key \in {PyInt(n) : n \in 0..MaxStep} : StepsGet(key)
    \/ \E isnap \in 0..LastProbe : SnapsGet(isnap)
    \/ \E id \in 1..Len(heap) : IsnapGet(id)
    \/ \E id \in 1..Len(heap), name \in FieldNames : FieldsGet(id, name)

\* Two record kinds are scanned; the solver has written all kinds, or all
\* but "vp".
SpecFields ==
    InitOf({<<"vp", "t">>}, {{"t", "sx"}, {"vp", "sx", "t"}}) /\ [][NextFields]_vars

\* --------------------------------------------------- the geometry of steps

\* The operations that reach the header and the geometry of a step.
NextStepGeom ==
    \/ \E key \in {PyInt(n) : n \in 0..MaxStep} : StepsGet(key)
    \/ \E isnap \in 0..LastProbe : SnapsGet(isnap)
    \/ \E id \in 1..Len(heap) : IsnapGet(id)
    \/ \E id \in 1..Len(heap) : FieldsGet(id, "t")
    \/ \E id \in 1..Len(heap) : GeomGet(id)

\* The record kinds "vp" and "t" are scanned, or none is; the solver has
\* written the files of "t" and "sx".
SpecStepGeom ==
    InitOf({<<"vp", "t">>, << >>}, {{"t", "sx"}}) /\ [][NextStepGeom]_vars

\* ------------------------------------------------------ the forward search

\* The operations that reach the snapshot index: steps are registered (also
\* steps later than the last snapshot), snapshots are requested, and the
\* snapshot of a step is searched.
NextSearch ==
    \/ \E key \in {PyInt(n) : n \in 0..LastProbe} : StepsGet(key)
    \/ \E isnap \in 0..LastProbe : SnapsGet(isnap)
    \/ \E id \in 1..Len(heap) : IsnapGet(id)

\* The record kinds "vp" and "t" are scanned, or none is; the solver has
\* written the files of "t" and "sx", or no file at all.
InitSearch == InitOf({<<"vp", "t">>, << >>}, {{"t", "sx"}, {}})

SpecSearch == InitSearch /\ [][NextSearch]_vars

\* ------------------------------------------------------ the whole-run series

\* step.itsnap on a registered step
ItsnapGet(id) ==
    /\ Store(StepItsnap(DB, id).d)
    /\ UNCHANGED gen

\* step.irsnap on a registered step
IrsnapGet(id) ==
    /\ Store(StepIrsnap(DB, id).d)
    /\ UNCHANGED gen

\* step.timeinfo on a registered step
TimeinfoGet(id) ==
    /\ Store(StepTimeinfo(DB, id).d)
    /\ UNCHANGED gen

\* step.rprof on a registered step
StepRprofGet(id) ==
    /\ Store(StepRprof(DB, id).d)
    /\ UNCHANGED gen

\* The operations on the three indices of the steps: the steps and the
\* snapshots are requested, the snapshot of a step is searched, and the
\* whole-run series are read, directly and from a step.
NextSeries ==
    \/ \E key \in {PyInt(n) : n \in 0..(MaxStep + 1)} : StepsGet(key)
    \/ \E isnap \in 0..LastProbe : SnapsGet(isnap)
    \/ \E id \in 1..Len(heap) : IsnapGet(id)
    \/ TseriesGet
    \/ RprofGet
    \/ \E id \in 1..Len(heap) : ItsnapGet(id)
    \/ \E id \in 1..Len(heap) : IrsnapGet(id)
    \/ \E id \in 1..Len(heap) : TimeinfoGet(id)
    \/ \E id \in 1..Len(heap) : StepRprofGet(id)

\* The record kinds "vp" and "t" are scanned; the solver has written the
\* files of "t" and "sx", a time series of the steps 0 and 1 and the
\* profiles of the step 1.
InitSeries == InitOf({<<"vp", "t">>}, {{"t", "sx"}})

SpecSeries == InitSeries /\ [][NextSeries]_vars

\* ----------------------------------------- concurrent callers of steps[k]

\* The critical section that never excludes.
FreeAlways(c, k) == TRUE

\* The caller c may enter the call steps[k]: the key k has no critical
\* section, or no other caller is inside it.
Free(c, k) ==
    k \in guarded =>
        \A o \in CallerIds \ {c} :
            callers[o].pc = "idle" \/ callers[o].key # k

\* What a step of a caller leaves alone: all but the registry, the steps
\* constructed and the callers.
OthersUnchanged ==
    UNCHANGED <<envvars, geovars, isteps, tseries, rprof, gen, hist, guarded>>

\* The caller c calls steps[k], for a key it has not asked for yet.
ConcCall(c, k) ==
    /\ callers[c].pc = "idle"
    /\ callers[c].got[k] = None
    /\ Free(c, k)
    /\ callers' = [callers EXCEPT ![c].pc = "lookup", ![c].key = k]
    /\ UNCHANGED <<steps, heap>>
    /\ OthersUnchanged

\* dict.__getitem__: the entry is returned, or __missing__ is called.
ConcLookup(c) ==
    /\ callers[c].pc = "lookup"
    /\ callers' =
          IF callers[c].key \in DOMAIN steps
          THEN [callers EXCEPT ![c].pc = "idle",
                    ![c].got[callers[c].key] = StepRef(steps[callers[c].key])]
          ELSE [callers EXCEPT ![c].pc = "missing"]
    /\ UNCHANGED <<steps, heap>>
    /\ OthersUnchanged

\* __missing__: the checks of the key pass; if not self.__contains__(istep)
ConcMissing(c) ==
    /\ callers[c].pc = "missing"
    /\ callers' =
          IF callers[c].key \notin DOMAIN steps
          THEN [callers EXCEPT ![c].pc = "construct"]
          ELSE [callers EXCEPT ![c].pc = "fetch"]
    /\ UNCHANGED <<steps, heap>>
    /\ OthersUnchanged

\* _Step(istep, self.sdat)
ConcConstruct(c) ==
    /\ callers[c].pc = "construct"
    /\ Len(heap) < MaxObjs
    /\ heap' = Append(heap, NewStep(callers[c].key))
    /\ callers' = [callers EXCEPT ![c].pc = "insert", ![c].made = Len(heap) + 1]
    /\ UNCHANGED steps
    /\ OthersUnchanged

\* super().__setitem__(istep, <the step constructed>)
ConcInsert(c) ==
    /\ callers[c].pc = "insert"
    /\ steps' = (callers[c].key :> callers[c].made) @@ steps
    /\ callers' = [callers EXCEPT ![c].pc = "fetch"]
    /\ UNCHANGED heap
    /\ OthersUnchanged

\* return super().__getitem__(istep)
ConcFetch(c) ==
    /\ callers[c].pc = "fetch"
    /\ callers' = [callers EXCEPT ![c].pc = "idle",
                       ![c].got[callers[c].key] = StepRef(steps[callers[c].key])]
    /\ UNCHANGED <<steps, heap>>
    /\ OthersUnchanged

\* A caller takes one step of steps[k]; the steps of the callers interleave.
NextConc ==
    \/ \E c \in CallerIds, k \in CallerKeys : ConcCall(c, k)
    \/ \E c \in CallerIds : ConcLookup(c)
    \/ \E c \in CallerIds : ConcMissing(c)
    \/ \E c \in CallerIds : ConcConstruct(c)
    \/ \E c \in CallerIds : ConcInsert(c)
    \/ \E c \in CallerIds : ConcFetch(c)

\* An empty registry, with a critical section for any set of keys.
InitConc ==
    /\ scan = << >>
    /\ snapfiles = Directory
    /\ written = {}
    /\ timerows = << >>
    /\ rprofrows = << >>
    /\ steps = << >>
    /\ heap = << >>
    /\ isteps = IndexesInit
    /\ tseries = UNDETERMINED
    /\ rprof = UNDETERMINED
    /\ gen = None
    /\ hist = [resolved |-> {}, parsed |-> {}, first |-> << >>, again |-> {}]
    /\ par_nml = [shape |-> "Cylindrical", r_cmb |-> PyFloat(1)]
    /\ hdr = None
    /\ geo = UNDETERMINED
    /\ callers = NoCall
    /\ guarded \in SUBSET CallerKeys

SpecConc == InitConc /\ [][NextConc]_vars

\* ------------------------------------------- the geometry as a component

\* The values a header may hold under 'rcmb': no such key, None, -1, 0, 0.5.
Rcmbs == {Missing, None, PyFloat(-2), PyFloat(0), PyFloat(1)}
\* The headers handed to _Geometry: None, and every grid of 1..MaxCells
\* cells per axis in 1..MaxCells blocks, of aspect pi / 2, pi or 3 pi / 2.
Headers ==
    {None} \cup
    {Header(None, rcmb, <<nx, ny, nz>>, ntb, <<aspect, 2>>) :
        rcmb \in Rcmbs, nx \in 1..MaxCells, ny \in 1..MaxCells,
        nz \in 1..MaxCells, ntb \in 1..MaxCells, aspect \in {2, pi, 6}}
\* The [geometry] sections of the namelist: a shape, and under 'r_cmb' no
\* such key, None, -1 or 0.5.
Pars ==
    [shape : {"cartesian", "Cylindrical", "cylindrical", "spherical",
              "axisymmetric"},
     r_cmb : {Missing, None, PyFloat(-2), PyFloat(1)}]

\* geometry = _Geometry(header, par), on the header dict as it is now.
Resolve ==
    /\ geo' = [exc |-> Geometry(hdr, par_nml).exc, geom |-> Geometry(hdr, par_nml).geom]
    /\ hdr' = Geometry(hdr, par_nml).header
    /\ UNCHANGED <<envvars, concvars, steps, heap, isteps, tseries, rprof, gen, hist>>

NextGeom == Resolve

\* Every header and every namelist, no geometry built yet.
InitGeom ==
    /\ scan = << >>
    /\ snapfiles = Directory
    /\ written = {}
    /\ timerows = << >>
    /\ rprofrows = << >>
    /\ steps = << >>
    /\ heap = << >>
    /\ isteps = IndexesInit
    /\ tseries = UNDETERMINED
    /\ rprof = UNDETERMINED
    /\ gen = None
    /\ hist = [resolved |-> {}, parsed |-> {}, first |-> << >>, again |-> {}]
    /\ par_nml \in Pars
    /\ hdr \in Headers
    /\ callers = NoCall
    /\ guarded = {}
    /\ geo = UNDETERMINED

\* _Geometry applied to every header and every namelist.
SpecGeom == InitGeom /\ [][NextGeom]_vars

\* ================================================================ properties

\* ---------------------------------------------------------------------- C1

\* steps[k] on the current state returns a step the registry holds under k;
\* for a registered k it is the registered object and nothing changes.
C1_Returned(k, r) ==
    /\ r.exc = "none"
    /\ r.v.tag = "step"
    /\ k \in DOMAIN r.d.steps
    /\ r.d.steps[k] = r.v.id
    /\ r.d.heap[r.v.id].istep = k
    /\ k \in DOMAIN steps => r.v = StepRef(steps[k]) /\ r.d = DB

\* No entry of the registry is removed or replaced, and no object of the
\* heap changes its step number.
C1_Kept ==
    /\ \A k \in DOMAIN steps : k \in DOMAIN steps' /\ steps'[k] = steps[k]
    /\ Len(heap') >= Len(heap)
    /\ \A id \in 1..Len(heap) : heap'[id].istep = heap[id].istep

\* C1: for every integer istep >= 0, steps[istep] returns the identical
\* Step object on every call, after any interleaving of the other dataset
\* operations (lookups, range queries, series parsing, item assignment): in
\* every state steps[istep] returns the object registered under istep, and
\* no step of the system removes or replaces a registered entry.
C1_StepIdentity ==
    /\ [](\A k \in 0..MaxStep : C1_Returned(k, StepsGetItem(DB, PyInt(k))))
    /\ [][C1_Kept]_vars

\* Three steps are registered, the time series is parsed and a range query
\* has produced elements.
C1_Witness ==
    /\ Cardinality(DOMAIN steps) >= 3
    /\ tseries # UNDETERMINED
    /\ gen # None
    /\ gen.n >= 1

\* ---------------------------------------------------------------------- C2

\* No configured record kind has a file of the snapshot number.
NoFile(isnap) == \A i \in 1..Len(scan) : ParseIstep(scan[i], isnap) = None

\* The request returned a placeholder.
IsPlaceholder(r) == r.exc = "none" /\ r.v = EmptyStep

\* C2 as stated: with a record kind configured, snaps[isnap] returns a
\* placeholder without raising for every snapshot number without a file,
\* however large.
C2_Unbounded ==
    scan # << >> =>
        \A isnap \in SnapKeys :
            NoFile(isnap) => IsPlaceholder(SnapsMissing(DB, isnap))

\* C2, amended: snaps[isnap] for a snapshot number without a file returns a
\* placeholder without raising for the numbers the index accepts (the
\* source: 0..99999), when a record kind is configured or the index holds
\* the number already; for every larger number the lookup of the index
\* raises IndexError and the dataset is left unchanged.
C2_Bounded ==
    \A isnap \in SnapKeys :
        NoFile(isnap) =>
            IF isnap < IndexSpan
            THEN (scan # << >> \/ get_istep(isteps, isnap).v = None)
                     => IsPlaceholder(SnapsMissing(DB, isnap))
            ELSE /\ SnapsMissing(DB, isnap).exc = "IndexError"
                 /\ SnapsMissing(DB, isnap).d = DB

\* Two snapshot numbers without a file are recorded as "no step", and the
\* first number the index rejects has no file either.
C2_Witness ==
    /\ scan # << >>
    /\ get_istep(isteps, 0).v = None
    /\ get_istep(isteps, 2).v = None
    /\ NoFile(IndexSpan)
    /\ SnapsMissing(DB, IndexSpan).exc = "IndexError"

\* ---------------------------------------------------------------------- C3

\* C3 as stated: on the placeholder returned for a missing snapshot every
\* accessor yields the unavailable value without raising: .geom, .timeinfo,
\* .rprof, .isnap, .fields, and .fields[name].
C3_Inert ==
    (\E isnap \in 0..LastProbe : get_istep(isteps, isnap).v = None) =>
        /\ \A attr \in {"fields", "geom", "timeinfo", "rprof", "isnap"} :
              EmptyAccess(DB, attr, None) = Ok(DB, None)
        /\ EmptyAccess(DB, "fields", PyStr("t")).exc = "none"

\* ---------------------------------------------------------------------- C4

\* C4: once snaps[isnap] has returned a first time (a step or "no step"),
\* every later snaps[isnap] returns without a call of the parser.
C4_NoReprobe ==
    \A isnap \in hist.resolved :
        /\ SnapsMissing(DB, isnap).exc = "none"
        /\ SnapsMissing(DB, isnap).d.nprobe = 0

\* A snapshot without a file and one with a file have both been resolved,
\* files having been probed for them.
C4_Witness ==
    /\ scan # << >>
    /\ {0, 1} \subseteq hist.resolved
    /\ get_istep(isteps, 0).v = None
    /\ get_istep(isteps, 1).v = PyInt(1)

\* ---------------------------------------------------------------------- C5

\* C5: the index is first-writer-wins: after any sequence of inserts the
\* lookup of isnap returns the step of the first insert of isnap, and
\* UNDETERMINED for a number never inserted.
C5_FirstWriterWins ==
    \A isnap \in 0..(IndexSpan - 1) :
        get_istep(isteps, isnap) =
            [exc |-> "none",
             v |-> IF isnap \in DOMAIN hist.first
                   THEN hist.first[isnap] ELSE UNDETERMINED]

\* A number was inserted again with another step, its bucket holding a
\* second number, the other bucket holding one too.
C5_Witness ==
    /\ 0 \in hist.again
    /\ {0, 1, 2} \subseteq DOMAIN hist.first
    /\ 3 \notin DOMAIN hist.first

\* ---------------------------------------------------------------------- C6

\* A configured record kind has a file of the snapshot number.
HasFile(isnap) == \E i \in 1..Len(scan) : ParseIstep(scan[i], isnap) # None

\* S.isnap of the step S that snaps[isnap] returned (r), and snaps[S.isnap].
C6_Back(r, isnap) ==
    /\ r.exc = "none"
    /\ r.v.tag = "step"
    /\ StepIsnap(r.d, r.v.id).exc = "none"
    /\ StepIsnap(r.d, r.v.id).v = PyInt(isnap)
    /\ SnapsMissing(StepIsnap(r.d, r.v.id).d, isnap).exc = "none"
    /\ SnapsMissing(StepIsnap(r.d, r.v.id).d, isnap).v = r.v

\* C6: for any snapshot number isnap whose file yields a step number, the
\* step S that snaps[isnap] returns has S.isnap = isnap and snaps[S.isnap]
\* is S again, after any sequence of other resolutions.
C6_RoundTrip ==
    \A isnap \in 0..LastProbe :
        HasFile(isnap) => C6_Back(SnapsMissing(DB, isnap), isnap)

\* Snapshot 3 is bound to the step 2, the step of snapshot 1 is registered
\* and a step without a snapshot has searched for one.
C6_Witness ==
    /\ get_istep(isteps, 3).v = PyInt(2)
    /\ \E id \in 1..Len(heap) : heap[id].istep = 2 /\ heap[id].isnap = PyInt(3)
    /\ \E id \in 1..Len(heap) : heap[id].istep = 1 /\ heap[id].isnap = PyInt(1)
    /\ \E id \in 1..Len(heap) : heap[id].isnap = None

\* ---------------------------------------------------------------------- C7

\* The sub-fields of the bundled records.
Bundled == {"u", "v", "w", "p", "sx", "sy", "sz", "x"}
Siblings(name) == {s \in Bundled : FIELD_VAR_LIST[s] = FIELD_VAR_LIST[name]}

\* After the request of name on the step id returned r: one full parse was
\* made, every sibling is cached, and the request of a sibling afterwards
\* makes no other.
C7_First(r, id, name) ==
    r.exc = "none" =>
        /\ r.d.nfull = 1
        /\ Siblings(name) \subseteq DOMAIN r.d.heap[id].fields
        /\ \A s \in Siblings(name) :
              /\ FieldsGetItem(r.d, id, s).exc = "none"
              /\ FieldsGetItem(r.d, id, s).d.nfull = 1

\* C7: on the field cache of a step, the first request of a sub-field of a
\* bundled record (u, v, w, p; sx, sy, sz, x) whose file is parsed makes
\* exactly one full parse and caches every sibling; a later request of the
\* field or of a sibling on the same step makes no full parse.
C7_FanOut ==
    \A id \in 1..Len(heap) : \A name \in Bundled :
        IF <<id, FIELD_VAR_LIST[name]>> \in hist.parsed
        THEN /\ FieldsGetItem(DB, id, name).exc = "none"
             /\ FieldsGetItem(DB, id, name).d.nfull = 0
        ELSE C7_First(FieldsGetItem(DB, id, name), id, name)

\* A step has both bundled records parsed, another has none.
C7_Witness ==
    /\ \E id \in 1..Len(heap) :
          {<<id, "vp">>, <<id, "sx">>} \subseteq hist.parsed
    /\ \E id \in 1..Len(heap) :
          /\ heap[id].isnap \in {PyInt(1), PyInt(3)}
          /\ heap[id].fields = << >>

\* ---------------------------------------------------------------------- C8

\* The key of the element number n (from 0) of the range of a slice.
KeyAt(key, n) == OrElse(key.start, 0) + n * OrElse(key.step, 1)

\* next(g) gave r for the element of key k: the step registered under k,
\* the object steps[k] returns before and after.
C8_Element(r, k) ==
    /\ r.exc = "none"
    /\ r.v.tag = "step"
    /\ r.d.heap[r.v.id].istep = k
    /\ r.v = StepsGetItem(r.d, PyInt(k)).v
    /\ k \in DOMAIN steps => r.v = StepsGetItem(DB, PyInt(k)).v

\* C8: a range query steps[start:stop:stride] yields the steps of start,
\* start + stride, ... below stop, in that order and nothing else, each the
\* object steps[istep] returns: having produced n elements, the sequence
\* produces next the step of start + n * stride if that is below stop, and
\* ends otherwise.
C8_RangeOrder ==
    (gen # None /\ gen.g.kind = "steps") =>
        IF KeyAt(gen.key, gen.n) < gen.key.stop.v
        THEN C8_Element(GenNext(DB, gen.g).r, KeyAt(gen.key, gen.n))
        ELSE GenNext(DB, gen.g).r.exc = "StopIteration"

\* The query steps[1:3] has produced the steps 1 and 2.
C8_Witness ==
    /\ gen # None
    /\ gen.g.kind = "steps"
    /\ gen.key.start = PyInt(1)
    /\ gen.n = 2
    /\ {1, 2} \subseteq DOMAIN steps

\* ---------------------------------------------------------------------- C9

\* The sequence of a range query has produced every element of its range.
Consumed ==
    /\ gen # None
    /\ gen.n >= 1
    /\ KeyAt(gen.key, gen.n) >= gen.key.stop.v

\* C9 as stated: the sequence a range query returned is restartable: once
\* it was consumed in full, iterating it again yields its first element.
C9_Restartable ==
    Consumed =>
        /\ GenNext(DB, gen.g).r.exc = "none"
        /\ GenNext(DB, gen.g).r.v = GenBody(DB, gen.g.kind, KeyAt(gen.key, 0)).v

\* C9, amended: the sequence a range query steps[start:stop:stride] or
\* snaps[start:stop:stride] returns is a single-pass generator: once it was
\* consumed in full, iterating it again yields nothing and leaves the
\* dataset unchanged.
C9_SinglePass ==
    Consumed =>
        /\ GenNext(DB, gen.g).r.exc = "StopIteration"
        /\ GenNext(DB, gen.g).r.d = DB
        /\ GenNext(DB, gen.g).g = gen.g

\* The query snaps[1:3] was consumed in full: a step and a placeholder.
C9_Witness ==
    /\ Consumed
    /\ gen.g.kind = "snaps"
    /\ gen.key.start = PyInt(1)
    /\ gen.n = 2

\* --------------------------------------------------------------------- C10

\* C10: steps[istep] with a negative integer istep raises ValueError and
\* leaves the registry unchanged: no step is created or stored.
C10_NegativeRejected ==
    \A n \in -2..-1 :
        /\ StepsGetItem(DB, PyInt(n)).exc = "ValueError"
        /\ StepsGetItem(DB, PyInt(n)).d = DB

\* Steps are registered and steps[-1] raises.
C10_Witness ==
    /\ Cardinality(DOMAIN steps) >= 2
    /\ Len(heap) >= 2
    /\ StepsGetItem(DB, PyInt(-1)).exc = "ValueError"

\* --------------------------------------------------------------------- C11

\* C11 as stated: steps[x] with a non-integral x (a fractional number, a
\* word) raises and creates no step; it never returns the step of some
\* integer.
C11_NonIntegralRejected ==
    \A key \in {PyFloat(3), PyStr("last")} :
        /\ StepsGetItem(DB, key).exc # "none"
        /\ StepsGetItem(DB, key).d = DB

\* --------------------------------------------------------------------- C12

\* C12: fields[name] with a name that is not in the catalog raises
\* ValueError before any file is probed or parsed, and leaves the field
\* cache, the header and the snapshot index (the whole dataset) unchanged.
C12_UnknownField ==
    \A id \in 1..Len(heap) :
        /\ FieldsGetItem(DB, id, "zz").exc = "ValueError"
        /\ FieldsGetItem(DB, id, "zz").d = DB

\* A step holds fields and a header, another has not looked for its
\* snapshot yet, and the unknown name is refused on both.
C12_Witness ==
    /\ \E id \in 1..Len(heap) :
          /\ heap[id].fields # << >>
          /\ heap[id].header # UNDETERMINED
          /\ FieldsGetItem(DB, id, "zz").exc = "ValueError"
    /\ \E id \in 1..Len(heap) :
          /\ heap[id].isnap = UNDETERMINED
          /\ FieldsGetItem(DB, id, "zz").exc = "ValueError"

\* --------------------------------------------------------------------- C13

\* snaps[isnap] returned r: if a step, the object steps[s] returns for its
\* step number s.
C13_Same(r) ==
    (r.exc = "none" /\ r.v.tag = "step") =>
        /\ StepsGetItem(r.d, IstepOf(r.d, r.v)).exc = "none"
        /\ StepsGetItem(r.d, IstepOf(r.d, r.v)).v = r.v
        /\ StepsGetItem(r.d, IstepOf(r.d, r.v)).d = r.d

\* C13: at most one Step object exists per istep across both registries:
\* every step constructed is the one registered under its step number,
\* however it was first created, and when snaps[isnap] resolves to the step
\* number s it returns the very object steps[s] returns.
C13_OneStepPerIstep ==
    /\ \A id \in 1..Len(heap) :
          /\ heap[id].istep \in DOMAIN steps
          /\ steps[heap[id].istep] = id
    /\ \A isnap \in 0..LastProbe : C13_Same(SnapsMissing(DB, isnap))

\* The step 1 was created by the series, the step 2 by a snapshot request or
\* a forward search, and snaps[1] and snaps[3] resolve to them.
C13_Witness ==
    /\ {0, 1, 2} \subseteq DOMAIN steps
    /\ tseries # UNDETERMINED
    /\ heap[steps[1]].itsnap = PyInt(1)
    /\ heap[steps[2]].isnap = PyInt(3)
    /\ SnapsMissing(DB, 1).v = StepRef(steps[1])
    /\ SnapsMissing(DB, 3).v = StepRef(steps[2])

\* --------------------------------------------------------------------- C14

\* The request snaps[isnap] returned a placeholder and left isnap recorded
\* as "no step".
C14_Recorded(r, isnap) ==
    /\ IsPlaceholder(r)
    /\ get_istep(r.d.idx, isnap).v = None

\* C14 as stated: for a snapshot number the index accepts, whenever no
\* configured record kind yields a step number (the empty configuration
\* included), snaps[isnap] records "no step" and returns a placeholder
\* without raising, on the first request and on later ones.
C14_AbsentCached ==
    \A isnap \in 0..(IndexSpan - 1) :
        NoFile(isnap) => C14_Recorded(SnapsMissing(DB, isnap), isnap)

\* --------------------------------------------------------------------- C15

\* C15 as stated: fields[name] for a name of the catalog on a registered
\* step returns without raising, also when the record file does not exist
\* or the step has no snapshot.
C15_MissingFileRecovered ==
    \A id \in 1..Len(heap) : \A name \in DOMAIN FIELD_VAR_LIST :
        FieldsGetItem(DB, id, name).exc = "none"

\* --------------------------------------------------------------------- C16

\* No configured record kind has a header for the step id: it holds none
\* yet and the parser finds none under the snapshot number isnap.
NoHeader(id, isnap) ==
    /\ heap[id].header \in {UNDETERMINED, None}
    /\ heap[id].header = UNDETERMINED =>
          \A i \in 1..Len(scan) : ParseHeader(filename(scan[i], isnap)) = None

\* step.geom returned r without raising, and does so when repeated.
C16_Twice(r, id) ==
    /\ r.exc = "none"
    /\ FieldsGeom(r.d, id).exc = "none"

\* C16 as stated: step.geom on a step for which no configured record kind
\* has a header returns ("unavailable") without raising, on the first
\* access and on every repeated one.
C16_GeomUnavailable ==
    \A id \in 1..Len(heap) :
        (StepIsnap(DB, id).exc = "none" /\ NoHeader(id, StepIsnap(DB, id).v))
            => C16_Twice(FieldsGeom(DB, id), id)

\* --------------------------------------------------------------------- C17

\* Exactly one of the three flags of the geometry g is true.
ExactlyOne(g) ==
    Cardinality({f \in {"cartesian", "cylindrical", "spherical"} :
                    CASE f = "cartesian" -> cartesian(g)
                      [] f = "cylindrical" -> cylindrical(g)
                      [] OTHER -> spherical(g)}) = 1

\* C17: for every Geometry built from any header (rcmb negative,
\* non-negative or None; any cell counts; any aspect) and any shape of the
\* namelist, exactly one of cartesian, cylindrical, spherical is true.
C17_ExactlyOneFlag ==
    /\ Geometry(hdr, par_nml).exc = "none" =>
          ExactlyOne(Geometry(hdr, par_nml).geom)
    /\ (geo # UNDETERMINED /\ geo.exc = "none") => ExactlyOne(geo.geom)

\* A spherical geometry was built from the r_cmb of the namelist on a grid
\* of one cell along y.
C17_Witness ==
    /\ geo # UNDETERMINED
    /\ geo.exc = "none"
    /\ spherical(geo.geom)
    /\ ~cylindrical(geo.geom)
    /\ hdr.nts[2] = 1
    /\ par_nml.shape = "spherical"
    /\ par_nml.r_cmb = PyFloat(1)

\* --------------------------------------------------------------------- C18

\* The geometry r is built and cylindrical only.
CylindricalOnly(r) ==
    /\ r.exc = "none"
    /\ cylindrical(r.geom)
    /\ ~spherical(r.geom)
    /\ ~cartesian(r.geom)

CartesianOnly(r) ==
    /\ r.exc = "none"
    /\ cartesian(r.geom)
    /\ ~cylindrical(r.geom)
    /\ ~spherical(r.geom)

\* C19 as stated: if neither the header nor the namelist supplies an inner
\* radius (None under 'rcmb' and under 'r_cmb'), the geometry is built
\* without error and is cartesian.
C19_DefaultCartesian ==
    (/\ hdr # None
     /\ hdr.rcmb = None
     /\ par_nml.r_cmb = None)
        => CartesianOnly(Geometry(hdr, par_nml))

\* --------------------------------------------------------------------- C20

\* Building the geometry again from the header the first building left
\* (r) gives the same result.
C20_Again(r) ==
    /\ Geometry(r.header, par_nml).exc = r.exc
    /\ Geometry(r.header, par_nml).geom = r.geom

\* C20 as stated: _Geometry is a pure function of the header and the
\* namelist: it leaves the header it was given unchanged, and building the
\* geometry of the same header twice gives the same flags, cell counts and
\* coordinates.
C20_Pure ==
    /\ Geometry(hdr, par_nml).header = hdr
    /\ C20_Again(Geometry(hdr, par_nml))

\* --------------------------------------------------------------------- C27

\* The header holds an inner radius >= 0.
RadiusInHeader ==
    /\ hdr # None
    /\ hdr.rcmb \notin {Missing, None}
    /\ hdr.rcmb.twice >= 0

\* The header holds None and the namelist an inner radius >= 0.
RadiusInNamelist ==
    /\ hdr # None
    /\ hdr.rcmb = None
    /\ par_nml.r_cmb \notin {Missing, None}
    /\ par_nml.r_cmb.twice >= 0

\* The flags of the geometry r are those asked: cylindrical iff cyl,
\* spherical iff sph.
HasFlags(r, cyl, sph) ==
    /\ r.exc = "none"
    /\ cylindrical(r.geom) = cyl
    /\ spherical(r.geom) = sph

\* C27 as stated: whenever the inner radius, of the header or else of the
\* namelist, is >= 0, the geometry is cylindrical exactly when the grid is
\* confined to the XZ plane and (the shape is "cylindrical" or the aspect
\* exceeds pi), and spherical in every other case.
C27_AsStated ==
    (RadiusInHeader \/ RadiusInNamelist) =>
        HasFlags(Geometry(hdr, par_nml),
                 hdr.nts[2] = 1 /\ (Lower(par_nml.shape) = "cylindrical"
                                    \/ hdr.aspect[1] > pi),
                 ~(hdr.nts[2] = 1 /\ (Lower(par_nml.shape) = "cylindrical"
                                      \/ hdr.aspect[1] > pi)))

\* C27, amended: with an inner radius >= 0 in the header, the geometry is
\* cylindrical exactly when the grid has one cell along y and (the shape is
\* "cylindrical" or the aspect is at least pi), and spherical otherwise;
\* with None in the header and an inner radius >= 0 in the namelist, the
\* aspect is not looked at: the geometry is cylindrical exactly when the
\* grid has one cell along y and the shape is "cylindrical", spherical
\* exactly when the shape is "spherical" (and it is not cylindrical), and
\* cartesian for every other shape.
C27_Disambiguation ==
    /\ RadiusInHeader =>
          HasFlags(Geometry(hdr, par_nml),
                   hdr.nts[2] = 1 /\ (Lower(par_nml.shape) = "cylindrical"
                                      \/ hdr.aspect[1] >= pi),
                   ~(hdr.nts[2] = 1 /\ (Lower(par_nml.shape) = "cylindrical"
                                        \/ hdr.aspect[1] >= pi)))
    /\ RadiusInNamelist =>
          HasFlags(Geometry(hdr, par_nml),
                   hdr.nts[2] = 1 /\ Lower(par_nml.shape) = "cylindrical",
                   Lower(par_nml.shape) = "spherical")

\* Built: a cylindrical geometry from an aspect of exactly pi, the shape not
\* being "cylindrical".
C27_Witness ==
    /\ geo # UNDETERMINED
    /\ geo.exc = "none"
    /\ cylindrical(geo.geom)
    /\ RadiusInHeader
    /\ hdr.aspect[1] = pi
    /\ par_nml.shape = "spherical"
    /\ par_nml.r_cmb = None

\* --------------------------------------------------------------------- C28

\* The list a is strictly increasing.
StrictlyIncreasing(a) == \A i \in 1..(Len(a) - 1) : a[i] < a[i + 1]

\* C28: in every reachable state of the index, the snapshot numbers of each
\* bucket are strictly increasing (sorted, none twice) and are those of the
\* bucket, and the list of steps of the bucket has the same length, its
\* entry i being the step recorded for the snapshot number of entry i.
C28_BucketsSorted ==
    \A b \in 1..nlst :
        /\ StrictlyIncreasing(isteps.isnap[b])
        /\ Len(isteps.istep[b]) = Len(isteps.isnap[b])
        /\ \A i \in 1..Len(isteps.isnap[b]) :
              /\ BucketPos(SuperIdx(isteps.isnap[b][i])) = b
              /\ isteps.isnap[b][i] \in DOMAIN hist.first
              /\ isteps.istep[b][i] = hist.first[isteps.isnap[b][i]]

\* Both buckets are full, the larger number of each inserted before the
\* smaller, and a number was inserted again with another step.
C28_Witness ==
    /\ isteps.isnap = <<<<0, 1>>, <<2, 3>>>>
    /\ isteps.istep[1] # isteps.istep[2]
    /\ hist.again # {}

\* --------------------------------------------------------------------- C30

\* C30: in every reachable state, for every registered step whose _isnap is
\* a number n the index maps n to the step's istep, and for every entry
\* (n, s) of the index with s a step number the step s is registered.
C30_IndexStepConsistent ==
    /\ \A k \in DOMAIN steps :
          heap[steps[k]].isnap \notin {UNDETERMINED, None} =>
              get_istep(isteps, heap[steps[k]].isnap.v) =
                  [exc |-> "none", v |-> PyInt(k)]
    /\ \A n \in 0..(IndexSpan - 1) :
          get_istep(isteps, n).v \notin {UNDETERMINED, None} =>
              get_istep(isteps, n).v.v \in DOMAIN steps

\* Both snapshots of the directory are bound to their steps, the numbers
\* without a file are recorded, and a step has no snapshot.
C30_Witness ==
    /\ get_istep(isteps, 0).v = None
    /\ get_istep(isteps, 1).v = PyInt(1)
    /\ get_istep(isteps, 2).v = None
    /\ get_istep(isteps, 3).v = PyInt(2)
    /\ {0, 1, 2} \subseteq DOMAIN steps
    /\ heap[steps[0]].isnap = None
    /\ heap[steps[1]].isnap = PyInt(1)
    /\ heap[steps[2]].isnap = PyInt(3)

\* --------------------------------------------------------------------- C24

\* The snapshot numbers the index d.idx holds.
Indexed(d) ==
    {n \in 0..(IndexSpan - 1) : get_istep(d.idx, n).v # UNDETERMINED}

\* The reading of step.isnap left r: it made no request outside the
\* numbers 0..LastProbe, it called the parser only for numbers that were
\* not in the index and are in it now, at most once per configured kind
\* for each, hence at most (LastProbe + 1) * Len(scan) times.
C24_Probes(r) ==
    /\ r.exc # "IndexError"
    /\ scan # << >> => r.exc = "none"
    /\ Indexed(r.d) \subseteq 0..LastProbe
    /\ r.d.nprobe <= Len(scan) * Cardinality(Indexed(r.d) \ Indexed(DB))
    /\ r.d.nprobe <= Len(scan) * (LastProbe + 1)

\* C24: the forward search of step.isnap ends whatever the directory holds
\* (no file at all included): it requests only snapshot numbers of
\* 0..LastProbe (99999 in the code), probes no number twice, and stops when
\* the ceiling is reached.
C24_SearchBounded ==
    \A id \in 1..Len(heap) :
        heap[id].isnap = UNDETERMINED => C24_Probes(StepIsnap(DB, id))

\* With no file in the directory a search has run up to the ceiling: every
\* number of 0..LastProbe is recorded without a step and a step has no
\* snapshot.
C24_Witness ==
    /\ scan # << >>
    /\ written = {}
    /\ \A n \in 0..LastProbe : get_istep(isteps, n).v = None
    /\ \E id \in 1..Len(heap) : heap[id].isnap = None

\* --------------------------------------------------------------------- C25

\* The step number the files of the snapshot n hold under the configured
\* kinds, None without a file.
OnDisk(n) ==
    IF \E i \in 1..Len(scan) : scan[i] \in written THEN snapfiles[n] ELSE None

\* The snapshot numbers whose step number is at least istep.
AtOrAbove(istep) ==
    {n \in 0..LastProbe : OnDisk(n) # None /\ OnDisk(n).v >= istep}

\* The first of them.
FirstAtOrAbove(istep) ==
    CHOOSE n \in AtOrAbove(istep) : \A m \in AtOrAbove(istep) : n <= m

\* What the search is to give for istep: the first snapshot whose step
\* number is at least istep when it is istep, None otherwise.
Expected(istep) ==
    IF AtOrAbove(istep) # {} /\ OnDisk(FirstAtOrAbove(istep)) = PyInt(istep)
    THEN PyInt(FirstAtOrAbove(istep)) ELSE None

\* The reading of step.isnap returned the expected snapshot and stored it.
C25_Outcome(r, id) ==
    /\ r.exc = "none"
    /\ r.v = Expected(heap[id].istep)
    /\ r.d.heap[id].isnap = Expected(heap[id].istep)

\* C25: with a record kind configured, the forward search for the step
\* istep gives the first snapshot number whose step number is at least
\* istep when that step number is istep, and None (no snapshot) when it is
\* larger or when the ceiling is reached; numbers without a file are passed
\* over.  A snapshot number a step already holds is that same number.
C25_SearchOutcome ==
    scan # << >> =>
        \A id \in 1..Len(heap) :
            IF heap[id].isnap = UNDETERMINED
            THEN C25_Outcome(StepIsnap(DB, id), id)
            ELSE heap[id].isnap = Expected(heap[id].istep)

\* The four outcomes have happened: step 0 lies before the first snapshot,
\* steps 1 and 2 are those of snapshots 1 and 3 (0 and 2 have no file), and
\* step 3 is later than every snapshot.
C25_Witness ==
    /\ written # {}
    /\ {0, 1, 2, 3} \subseteq DOMAIN steps
    /\ heap[steps[0]].isnap = None
    /\ heap[steps[1]].isnap = PyInt(1)
    /\ heap[steps[2]].isnap = PyInt(3)
    /\ heap[steps[3]].isnap = None

\* --------------------------------------------------------------------- C26

\* The last snapshot number the search for istep requests.
StopAt(istep) ==
    IF AtOrAbove(istep) # {} THEN FirstAtOrAbove(istep) ELSE LastProbe

\* In the state d the number n is in the index, the step it locates, if
\* any, holds n as its snapshot, and snaps[n] calls no parser.
C26_Settled(d, n) ==
    /\ get_istep(d.idx, n).v # UNDETERMINED
    /\ get_istep(d.idx, n).v # None =>
          /\ get_istep(d.idx, n).v.v \in DOMAIN d.steps
          /\ d.heap[d.steps[get_istep(d.idx, n).v.v]].isnap = PyInt(n)
    /\ SnapsMissing(d, n).exc = "none"
    /\ SnapsMissing(d, n).d.nprobe = d.nprobe

\* After the search of the step id left r: every number it requested is
\* settled, and searching again changes nothing.
C26_After(r, id) ==
    /\ r.exc = "none"
    /\ \A n \in 0..StopAt(heap[id].istep) : C26_Settled(r.d, n)
    /\ StepIsnap(r.d, id) = r

\* C26: with a record kind configured, after a forward search every
\* snapshot number it requested is in the index and every step it located
\* holds its snapshot number, so that a later snaps[n] for one of them, or
\* the same search again, probes no file.
C26_SearchRecorded ==
    scan # << >> =>
        \A id \in 1..Len(heap) :
            heap[id].isnap = UNDETERMINED => C26_After(StepIsnap(DB, id), id)

\* A search has gone over the whole directory: step 3, later than every
\* snapshot, has none (which only a search up to the ceiling leaves), and
\* steps 1 and 2, the only others, hold the snapshots that locate them.
C26_Witness ==
    /\ written # {}
    /\ DOMAIN steps = {1, 2, 3}
    /\ heap[steps[3]].isnap = None
    /\ heap[steps[1]].isnap = PyInt(1)
    /\ heap[steps[2]].isnap = PyInt(3)
    /\ hist.resolved = {0, 1, 2, 3}

\* --------------------------------------------------------------------- C21

\* The number of parses an access is to make of a series that is v.
Parses(v) == IF v = UNDETERMINED THEN 1 ELSE 0

\* The access that left r made n parses and left both series as they were
\* when they were parsed already.
C21_Parsed(r, n) ==
    /\ r.exc = "none"
    /\ r.d.nseries = n
    /\ tseries # UNDETERMINED => r.d.tseries = tseries
    /\ rprof # UNDETERMINED => r.d.rprof = rprof

\* In this state every access that needs the time series parses it when it
\* was not parsed and leaves it parsed, and parses nothing when it was; the
\* same for the profiles.
C21_Accesses ==
    /\ C21_Parsed(Tseries(DB), Parses(tseries))
    /\ Tseries(DB).d.tseries # UNDETERMINED
    /\ C21_Parsed(Rprof(DB), Parses(rprof))
    /\ Rprof(DB).d.rprof # UNDETERMINED
    /\ \A id \in 1..Len(heap) :
          /\ C21_Parsed(StepItsnap(DB, id), Parses(tseries))
          /\ StepItsnap(DB, id).d.tseries # UNDETERMINED
          /\ C21_Parsed(StepTimeinfo(DB, id), Parses(tseries))
          /\ StepTimeinfo(DB, id).d.tseries # UNDETERMINED
          /\ C21_Parsed(StepIrsnap(DB, id), Parses(rprof))
          /\ StepIrsnap(DB, id).d.rprof # UNDETERMINED
          /\ C21_Parsed(StepRprof(DB, id), Parses(rprof))
          /\ StepRprof(DB, id).d.rprof # UNDETERMINED

\* A step of the dataset never puts a parsed series back to UNDETERMINED.
C21_Kept ==
    /\ tseries # UNDETERMINED => tseries' = tseries
    /\ rprof # UNDETERMINED => rprof' = rprof

\* C21: over every sequence of accesses to dataset.tseries, dataset.rprof,
\* step.timeinfo, step.rprof, step.itsnap and step.irsnap, the time series
\* is parsed once, by the first access that needs it, and the profiles
\* once; no later access parses either again.
C21_ParsedOnce == []C21_Accesses /\ [][C21_Kept]_vars

\* Both series are parsed and steps are registered whose accessors are
\* read again: one of the rows and one of no row.
C21_Witness ==
    /\ tseries # UNDETERMINED
    /\ rprof # UNDETERMINED
    /\ {1, 2} \subseteq DOMAIN steps
    /\ heap[steps[1]].irsnap = PyInt(0)
    /\ heap[steps[2]].itsnap = None

\* --------------------------------------------------------------------- C22

\* In the state d, every row i of the time series, of step number s, has
\* steps[s] registered with itsnap = i, and steps[s].timeinfo is the row i.
C22_TimeRows(d) ==
    \A i \in 1..Len(timerows) :
        /\ timerows[i] \in DOMAIN d.steps
        /\ d.heap[d.steps[timerows[i]]].itsnap = PyInt(i - 1)
        /\ StepTimeinfo(d, d.steps[timerows[i]]) =
               Ok(d, SeriesRow(timerows, i - 1))

\* The same for the profiles, irsnap and steps[s].rprof.
C22_ProfRows(d) ==
    \A i \in 1..Len(rprofrows) :
        /\ rprofrows[i] \in DOMAIN d.steps
        /\ d.heap[d.steps[rprofrows[i]]].irsnap = PyInt(i - 1)
        /\ StepRprof(d, d.steps[rprofrows[i]]) =
               Ok(d, SeriesRow(rprofrows, i - 1))

\* The step numbers of the rows of a series.
StepsOf(rows) == {rows[i] : i \in 1..Len(rows)}

\* The step id is of no row of the time series: its itsnap reads None and
\* its timeinfo is None; the same for the profiles.
C22_Absent(id) ==
    /\ heap[id].istep \notin StepsOf(timerows) =>
          /\ StepItsnap(DB, id).exc = "none"
          /\ StepItsnap(DB, id).v = None
          /\ StepItsnap(DB, id).d.heap[id].itsnap = None
          /\ StepTimeinfo(DB, id).exc = "none"
          /\ StepTimeinfo(DB, id).v = None
    /\ heap[id].istep \notin StepsOf(rprofrows) =>
          /\ StepIrsnap(DB, id).exc = "none"
          /\ StepIrsnap(DB, id).v = None
          /\ StepIrsnap(DB, id).d.heap[id].irsnap = None
          /\ StepRprof(DB, id).exc = "none"
          /\ StepRprof(DB, id).v = None

\* C22: the access to dataset.tseries leaves, for every row i of step
\* number s, steps[s] registered with itsnap = i and steps[s].timeinfo the
\* row i, at the first access and in every later state; the access to
\* dataset.rprof does the same with irsnap and steps[s].rprof; a step of no
\* row resolves the index to None and its timeinfo / rprof is None.
C22_CrossRegistered ==
    /\ Tseries(DB).exc = "none" /\ C22_TimeRows(Tseries(DB).d)
    /\ tseries # UNDETERMINED => C22_TimeRows(DB)
    /\ Rprof(DB).exc = "none" /\ C22_ProfRows(Rprof(DB).d)
    /\ rprof # UNDETERMINED => C22_ProfRows(DB)
    /\ \A id \in 1..Len(heap) : C22_Absent(id)

\* Both series were parsed: steps 0 and 1 hold their rows of the time
\* series, step 1 its profile, and steps 0 and 2 were read to have none.
C22_Witness ==
    /\ {0, 1, 2} \subseteq DOMAIN steps
    /\ heap[steps[0]].itsnap = PyInt(0)
    /\ heap[steps[1]].itsnap = PyInt(1)
    /\ heap[steps[1]].irsnap = PyInt(0)
    /\ heap[steps[0]].irsnap = None
    /\ heap[steps[2]].irsnap = None
    /\ heap[steps[2]].itsnap = None

\* --------------------------------------------------------------------- C23

\* Reading an index that is no longer UNDETERMINED returns it and changes
\* nothing: no file is probed, no series parsed.
C23_ReadOnly(id) ==
    /\ heap[id].isnap # UNDETERMINED =>
          StepIsnap(DB, id) = Ok(DB, heap[id].isnap)
    /\ heap[id].itsnap # UNDETERMINED =>
          StepItsnap(DB, id) = Ok(DB, heap[id].itsnap)
    /\ heap[id].irsnap # UNDETERMINED =>
          StepIrsnap(DB, id) = Ok(DB, heap[id].irsnap)

\* A step of the dataset changes no index that is no longer UNDETERMINED.
C23_Terminal ==
    \A id \in 1..Len(heap) :
        /\ id \in 1..Len(heap')
        /\ heap[id].isnap # UNDETERMINED => heap'[id].isnap = heap[id].isnap
        /\ heap[id].itsnap # UNDETERMINED => heap'[id].itsnap = heap[id].itsnap
        /\ heap[id].irsnap # UNDETERMINED => heap'[id].irsnap = heap[id].irsnap

\* C23: each of the three indices of a step (_isnap, _itsnap, _irsnap)
\* leaves UNDETERMINED once: when it holds a number or None, no later
\* operation of the dataset (snaps[], bind, the search of another step,
\* the parse of a series) changes it, and reading it attempts nothing.
C23_ResolvedOnce ==
    [](\A id \in 1..Len(heap) : C23_ReadOnly(id)) /\ [][C23_Terminal]_vars

\* The three indices of a step are settled, each in both ways among the
\* steps: a number and None.
C23_Witness ==
    /\ {0, 1} \subseteq DOMAIN steps
    /\ heap[steps[0]].isnap = None
    /\ heap[steps[0]].itsnap = PyInt(0)
    /\ heap[steps[0]].irsnap = None
    /\ heap[steps[1]].isnap = PyInt(1)
    /\ heap[steps[1]].irsnap = PyInt(0)
    /\ tseries # UNDETERMINED
    /\ rprof # UNDETERMINED
    /\ hist.resolved = {0, 1, 2, 3}

\* --------------------------------------------------------------------- C29

\* The callers that have returned from steps[k] hold the same _Step, and a
\* single _Step of step number k was constructed.
OneStepFor(k) ==
    /\ \A c, o \in CallerIds :
          callers[c].got[k] # None /\ callers[o].got[k] # None =>
              callers[c].got[k] = callers[o].got[k]
    /\ \A i, j \in 1..Len(heap) :
          heap[i].istep = k /\ heap[j].istep = k => i = j

\* C29: with lookup, construct and insert of steps[k] one critical section
\* per key, "at most one Step per istep" holds under every interleaving of
\* the callers; for a key without it, two callers of steps[k] can be handed
\* distinct _Step objects (the state of the witness).
C29_SectionPreserves == \A k \in guarded : OneStepFor(k)

\* Two callers have returned from steps[0] and from steps[1], both keys not
\* registered before: with the critical section of key 0 they hold the same
\* step 0; without one for key 1 they hold distinct steps 1, two having been
\* constructed.
C29_Witness ==
    /\ guarded = {0}
    /\ \A c \in CallerIds : callers[c].got[0] # None /\ callers[c].got[1] # None
    /\ OneStepFor(0)
    /\ callers["a"].got[1] # callers["b"].got[1]
    /\ Len(heap) = 3

=============================================================================
